---- MODULE Spec2Model ----
(***************************************************************************)
(* moltworker: the public route set (src/routes/public.ts) and the R2      *)
(* storage mount helper (src/gateway/r2.ts).                               *)
(*                                                                         *)
(* Strings are TLA+ strings; substring search, replacement and URL         *)
(* splitting are computed character by character with Len/SubSeq/\o.       *)
(* An optional value (a possibly undefined env binding) is <<>> when       *)
(* undefined and <<s>> when it is the string s.                            *)
(***************************************************************************)
EXTENDS Integers, Sequences, FiniteSets, TLC

VARIABLES
    env,        \* the worker's environment bindings (the three R2 credentials)
    inUseBy,    \* sandbox: name of the bucket mounted at R2_MOUNT_PATH, "" if none
    mountLog,   \* one record per invocation of mountR2Storage, the last may be in flight
    procs,      \* sandbox: ids of the backing (gateway) processes that exist
    listening,  \* sandbox: the gateway port accepts TCP connections
    starts,     \* sandbox: number of process starts performed so far
    pc,         \* per request: position of its handler
    raw,        \* per request: the inbound request (c.req.raw)
    found,      \* per request: the process returned by the lookup (<<>> if none)
    trace,      \* per request: collaborator calls and their outcomes, in order
    resp,       \* per request: the response returned by the handler (<<>> if none yet)
    escaped,    \* per request: an exception left the handler
    assetReq,   \* asset route: the inbound request
    assetFetch  \* asset route: the requests handed to ASSETS.fetch

vars == <<env, inUseBy, mountLog, procs, listening, starts,
          pc, raw, found, trace, resp, escaped, assetReq, assetFetch>>

mountVars == <<env, inUseBy, mountLog>>
sandboxVars == <<procs, listening, starts>>
reqVars == <<pc, raw, found, trace, resp, escaped>>
assetVars == <<assetReq, assetFetch>>

----------------------------------------------------------------------------
(* Bounds *)

MaxMounts == 2      \* invocations of mountR2Storage in one behaviour
MaxReqs == 2        \* concurrent requests
MaxSegs == 2        \* path segments after /_admin/assets/

----------------------------------------------------------------------------
(* JavaScript helpers *)

Undefined == <<>>
Some(s) == <<s>>

\* !v for an optional string: undefined and "" are falsy
Falsy(v) == v = Undefined \/ v[1] = ""

\* An optional string as text (template literals print undefined as "undefined")
Text(v) == IF v = Undefined THEN "undefined" ELSE v[1]

\* String.prototype.includes
Includes(h, n) ==
    \E i \in 1..(Len(h) - Len(n) + 1) : SubSeq(h, i, i + Len(n) - 1) = n

\* String.prototype.indexOf, 1-based, 0 when absent
IndexOf(h, n) ==
    IF Includes(h, n)
    THEN CHOOSE i \in 1..(Len(h) - Len(n) + 1) :
            /\ SubSeq(h, i, i + Len(n) - 1) = n
            /\ \A j \in 1..(i - 1) : SubSeq(h, j, j + Len(n) - 1) # n
    ELSE 0

\* String.prototype.replace with a string pattern: the first occurrence only
Replace(s, pat, rep) ==
    LET i == IndexOf(s, pat) IN
    IF i = 0 THEN s
    ELSE SubSeq(s, 1, i - 1) \o rep \o SubSeq(s, i + Len(pat), Len(s))

\* Thrown values: an Error with a message, a bare string, or undefined
ErrorOf(m) == [type |-> "Error", text |-> m]
StringThrown(s) == [type |-> "string", text |-> s]
UndefinedThrown == [type |-> "undefined", text |-> ""]

\* String(err) for a value that is not an Error
StringOf(err) == IF err.type = "undefined" THEN "undefined" ELSE err.text

----------------------------------------------------------------------------
(* Configuration constants (src/config.ts, imported by both files) *)

R2_MOUNT_PATH == "/data/clawdbot"
R2_BUCKET_NAME == "clawdbot-data"
MOLTBOT_PORT == 18789

----------------------------------------------------------------------------
(* Storage mount helper: mountR2Storage (src/gateway/r2.ts) *)

\* The environments: each credential undefined, empty, or a value
Envs ==
    [R2_ACCESS_KEY_ID : {Undefined, Some(""), Some("key123")},
     R2_SECRET_ACCESS_KEY : {Undefined, Some(""), Some("secret")},
     CF_ACCOUNT_ID : {Undefined, Some(""), Some("account123"), Some("acct9")}]

\* Variant: the account id is not checked
CredentialsMissing_NoAccountCheck(e) ==
    Falsy(e.R2_ACCESS_KEY_ID) \/ Falsy(e.R2_SECRET_ACCESS_KEY)

\* The guard of line 14
CredentialsMissing(e) ==
    Falsy(e.R2_ACCESS_KEY_ID) \/ Falsy(e.R2_SECRET_ACCESS_KEY) \/ Falsy(e.CF_ACCOUNT_ID)

\* The template literal of line 22
Endpoint(accountId) == "https://" \o accountId \o ".r2.cloudflarestorage.com"

\* Variant: the endpoint is built from the access key id
MountArgs_KeyEndpoint(e) ==
    [bucket |-> R2_BUCKET_NAME,
     mountPath |-> R2_MOUNT_PATH,
     endpoint |-> Endpoint(Text(e.R2_ACCESS_KEY_ID)),
     accessKeyId |-> Text(e.R2_ACCESS_KEY_ID),
     secretAccessKey |-> Text(e.R2_SECRET_ACCESS_KEY)]

\* The arguments of sandbox.mountBucket, lines 21-28
MountArgs(e) ==
    [bucket |-> R2_BUCKET_NAME,
     mountPath |-> R2_MOUNT_PATH,
     endpoint |-> Endpoint(Text(e.CF_ACCOUNT_ID)),
     accessKeyId |-> Text(e.R2_ACCESS_KEY_ID),
     secretAccessKey |-> Text(e.R2_SECRET_ACCESS_KEY)]

\* Line 33: err instanceof Error ? err.message : String(err)
ErrorMessage(err) == IF err.type = "Error" THEN err.text ELSE StringOf(err)

\* Variant: every mount failure is a failure
MountCatch_AlwaysFalse(err) == "false"

\* Variant: a looser match of the conflict message
MountCatch_LooseMatch(err) ==
    IF Includes(ErrorMessage(err), "already") THEN "true" ELSE "false"

\* Variant: only a conflict with this bucket at this path counts as mounted
MountCatch_SameBucketOnly(err) ==
    IF Includes(ErrorMessage(err),
                "\"" \o R2_MOUNT_PATH \o "\" is already in use by bucket \""
                    \o R2_BUCKET_NAME \o "\"")
    THEN "true" ELSE "false"

\* The catch block, lines 31-41: the value mountR2Storage returns
MountCatch(err) ==
    IF Includes(ErrorMessage(err), "already in use") THEN "true" ELSE "false"

\* The message the sandbox gives when the mount path is taken (r2.test.ts:129)
InUseMessage(bucket) ==
    "InvalidMountConfigError: Mount path \"" \o R2_MOUNT_PATH
        \o "\" is already in use by bucket \"" \o bucket \o "\""

\* Other ways sandbox.mountBucket can fail (r2.test.ts:110 and near misses)
TransientFailures ==
    {ErrorOf("Mount failed"), ErrorOf("Already In Use"), ErrorOf("already in us"),
     ErrorOf(""), StringThrown("path already in use"), UndefinedThrown,
     ErrorOf("Mount path \"/mnt/cache\" is already in use by bucket \"cache\"")}

\* The rejections sandbox.mountBucket can produce in a given sandbox state
SandboxRejections(inUse) ==
    IF inUse = "" THEN TransientFailures
    ELSE {ErrorOf(InUseMessage(inUse))} \cup TransientFailures

LastMount == mountLog[Len(mountLog)]
MountIdle == IF mountLog = <<>> THEN TRUE ELSE LastMount.phase = "done"
MountAwaiting == IF mountLog = <<>> THEN FALSE ELSE LastMount.phase = "awaitMount"

NoOutcome == <<>>
Resolved == <<[kind |-> "resolved", err |-> UndefinedThrown]>>
Rejected(err) == <<[kind |-> "rejected", err |-> err]>>

\* mountR2Storage up to its first await (lines 12-21)
MountStart ==
    /\ MountIdle
    /\ Len(mountLog) < MaxMounts
    /\ mountLog' = Append(mountLog,
          IF CredentialsMissing(env)
          THEN [phase |-> "done", calls |-> <<>>, outcome |-> NoOutcome,
                result |-> "false"]
          ELSE [phase |-> "awaitMount", calls |-> <<MountArgs(env)>>,
                outcome |-> NoOutcome, result |-> "pending"])
    /\ UNCHANGED <<env, inUseBy, sandboxVars, reqVars, assetVars>>

\* sandbox.mountBucket resolves; lines 29-30
MountBucketResolves ==
    /\ MountAwaiting
    /\ inUseBy = ""
    /\ inUseBy' = LastMount.calls[1].bucket
    /\ mountLog' = [mountLog EXCEPT ![Len(mountLog)] =
          [@ EXCEPT !.phase = "done", !.outcome = Resolved, !.result = "true"]]
    /\ UNCHANGED <<env, sandboxVars, reqVars, assetVars>>

\* Variant: a rejected mount call is attempted again
MountBucketRejects_Retries ==
    /\ MountAwaiting
    /\ \E err \in SandboxRejections(inUseBy) :
          mountLog' = [mountLog EXCEPT ![Len(mountLog)] =
              [@ EXCEPT !.calls = Append(@, MountArgs(env)),
                        !.outcome = Rejected(err)]]
    /\ UNCHANGED <<env, inUseBy, sandboxVars, reqVars, assetVars>>

\* sandbox.mountBucket rejects with err; lines 31-41
MountBucketRejects ==
    /\ MountAwaiting
    /\ \E err \in SandboxRejections(inUseBy) :
          mountLog' = [mountLog EXCEPT ![Len(mountLog)] =
              [@ EXCEPT !.phase = "done", !.outcome = Rejected(err),
                        !.result = MountCatch(err)]]
    /\ UNCHANGED <<env, inUseBy, sandboxVars, reqVars, assetVars>>

----------------------------------------------------------------------------
(* Public routes (src/routes/public.ts): requests, responses, collaborators *)

Reqs == 1..MaxReqs

WebhookPaths ==
    {"/telegram", "/telegram-webhook", "/slack/events", "/slack/interactions",
     "/slack/commands", "/discord/interactions"}

\* The registrations, in source order (lines 15, 24, 29, 34, 58, 95-110)
Routes ==
    <<[method |-> "GET", path |-> "/sandbox-health", handler |-> "health"],
      [method |-> "GET", path |-> "/logo.png", handler |-> "logo"],
      [method |-> "GET", path |-> "/logo-small.png", handler |-> "logo"],
      [method |-> "GET", path |-> "/api/status", handler |-> "status"],
      [method |-> "GET", path |-> "/_admin/assets/*", handler |-> "adminAssets"],
      [method |-> "POST", path |-> "/telegram", handler |-> "proxyWebhook"],
      [method |-> "POST", path |-> "/telegram-webhook", handler |-> "proxyWebhook"],
      [method |-> "POST", path |-> "/slack/events", handler |-> "proxyWebhook"],
      [method |-> "POST", path |-> "/slack/interactions", handler |-> "proxyWebhook"],
      [method |-> "POST", path |-> "/slack/commands", handler |-> "proxyWebhook"],
      [method |-> "POST", path |-> "/discord/interactions", handler |-> "proxyWebhook"]>>

StartsWith(s, prefix) == Len(s) >= Len(prefix) /\ SubSeq(s, 1, Len(prefix)) = prefix

\* Hono's matching of a registered path: literal, or a prefix when it ends in /*
Matches(pattern, path) ==
    IF Len(pattern) >= 2 /\ SubSeq(pattern, Len(pattern) - 1, Len(pattern)) = "/*"
    THEN LET prefix == SubSeq(pattern, 1, Len(pattern) - 2)
         IN path = prefix \/ StartsWith(path, prefix \o "/")
    ELSE path = pattern

\* The handler Hono runs for a method and path: the first registration that matches
Route(method, path) ==
    LET hits == {i \in DOMAIN Routes :
                    Routes[i].method = method /\ Matches(Routes[i].path, path)}
    IN IF hits = {} THEN "none"
       ELSE Routes[CHOOSE i \in hits : \A j \in hits : i <= j].handler

\* Inbound requests: one delivery per platform path, and the two GET probes
InboundRequests ==
    {[method |-> "POST", path |-> "/telegram",
      headers |-> "content-type: application/json", body |-> "{update_id:1}"],
     [method |-> "POST", path |-> "/telegram-webhook",
      headers |-> "content-type: application/json", body |-> "{update_id:2}"],
     [method |-> "POST", path |-> "/slack/events",
      headers |-> "x-slack-signature: v0=ab", body |-> "{type:event_callback}"],
     [method |-> "POST", path |-> "/slack/interactions",
      headers |-> "x-slack-signature: v0=cd", body |-> "payload=%7B%7D"],
     [method |-> "POST", path |-> "/slack/commands",
      headers |-> "x-slack-signature: v0=ef", body |-> "command=%2Fbot"],
     [method |-> "POST", path |-> "/discord/interactions",
      headers |-> "x-signature-ed25519: 01", body |-> "{type:1}"],
     [method |-> "GET", path |-> "/sandbox-health", headers |-> "accept: */*", body |-> ""],
     [method |-> "GET", path |-> "/api/status", headers |-> "accept: */*", body |-> ""]}

\* Responses the backing process can give to a forwarded request
GatewayResponses ==
    {[status |-> 200, headers |-> "x-gateway: 1", body |-> [text |-> "ok"]],
     [status |-> 500, headers |-> "x-gateway: 1", body |-> [text |-> "bot crashed"]]}

\* Values a collaborator of the routes can throw
Throwables == {ErrorOf("Gateway failed to start"), StringThrown("oops")}

\* c.json(body, status)
Json(body, status) ==
    [status |-> status, headers |-> "content-type: application/json", body |-> body]

NoResponse == <<>>

ProcId(n) == "proc-" \o ToString(n)

\* Trace events
Call(op, args) == [op |-> op, ev |-> "call", args |-> args]
Return(op) == [op |-> op, ev |-> "return"]
Throw(op, err) == [op |-> op, ev |-> "throw", err |-> err]

\* Requests are numbered in arrival order
MayBegin(r) == pc[r] = "idle" /\ \A q \in Reqs : q < r => pc[q] # "idle"

Respond(r, response) ==
    /\ resp' = [resp EXCEPT ![r] = <<response>>]
    /\ pc' = [pc EXCEPT ![r] = "done"]

\* Lines 16-20: the health payload
HealthBody ==
    [status |-> "ok", service |-> "moltbot-sandbox", gateway_port |-> MOLTBOT_PORT]

\* Variant: the health check probes the sandbox first
HealthCheck_Lookup(r) ==
    /\ MayBegin(r)
    /\ \E q \in InboundRequests :
          /\ Route(q.method, q.path) = "health"
          /\ raw' = [raw EXCEPT ![r] = <<q>>]
    /\ trace' = [trace EXCEPT ![r] = Append(@, Call("findExistingMoltbotProcess", <<>>))]
    /\ Respond(r, Json(HealthBody, 200))
    /\ UNCHANGED <<found, escaped, mountVars, sandboxVars, assetVars>>

\* GET /sandbox-health, lines 15-21
HealthCheck(r) ==
    /\ MayBegin(r)
    /\ \E q \in InboundRequests :
          /\ Route(q.method, q.path) = "health"
          /\ raw' = [raw EXCEPT ![r] = <<q>>]
    /\ Respond(r, Json(HealthBody, 200))
    /\ UNCHANGED <<found, trace, escaped, mountVars, sandboxVars, assetVars>>

----------------------------------------------------------------------------
(* GET /api/status, lines 34-54 *)

\* Variant: the status check waits on another port
WaitForPortArgs_OtherPort == [port |-> 8080, mode |-> "tcp", timeout |-> 5000]

\* Line 46: the arguments of process.waitForPort
WaitForPortArgs == [port |-> 18789, mode |-> "tcp", timeout |-> 5000]

\* Line 40
StatusNotRunning == Json([ok |-> FALSE, status |-> "not_running"], 200)
\* Variant: the running body leaves out the process id
StatusRunning_NoProcessId(p) == Json([ok |-> TRUE, status |-> "running"], 200)

\* Line 47
StatusRunning(p) == Json([ok |-> TRUE, status |-> "running", processId |-> p], 200)
\* Variant: a failed port wait is reported like a failed lookup
StatusNotResponding_AsError(p) ==
    Json([ok |-> FALSE, status |-> "error", error |-> "Unknown error"], 200)

\* Line 49
StatusNotResponding(p) ==
    Json([ok |-> FALSE, status |-> "not_responding", processId |-> p], 200)
\* Line 52
StatusError(err) ==
    Json([ok |-> FALSE, status |-> "error",
          error |-> IF err.type = "Error" THEN err.text ELSE "Unknown error"], 200)

\* Variant: the status check ensures the gateway instead of looking it up
StatusBegin_Ensures(r) ==
    /\ MayBegin(r)
    /\ \E q \in InboundRequests :
          /\ Route(q.method, q.path) = "status"
          /\ raw' = [raw EXCEPT ![r] = <<q>>]
    /\ trace' = [trace EXCEPT ![r] = Append(@, Call("ensureMoltbotGateway", <<>>))]
    /\ pc' = [pc EXCEPT ![r] = "ensure"]
    /\ UNCHANGED <<found, resp, escaped, mountVars, sandboxVars, assetVars>>

\* Lines 34-38: up to the await of findExistingMoltbotProcess
StatusBegin(r) ==
    /\ MayBegin(r)
    /\ \E q \in InboundRequests :
          /\ Route(q.method, q.path) = "status"
          /\ raw' = [raw EXCEPT ![r] = <<q>>]
    /\ trace' = [trace EXCEPT ![r] = Append(@, Call("findExistingMoltbotProcess", <<>>))]
    /\ pc' = [pc EXCEPT ![r] = "lookup"]
    /\ UNCHANGED <<found, resp, escaped, mountVars, sandboxVars, assetVars>>

\* findExistingMoltbotProcess: the existing process, or null
FindExisting == IF procs = {} THEN <<>> ELSE <<CHOOSE p \in procs : TRUE>>

\* The lookup returns; lines 39-46
LookupReturns(r) ==
    /\ pc[r] = "lookup"
    /\ found' = [found EXCEPT ![r] = FindExisting]
    /\ IF FindExisting = <<>>
       THEN /\ trace' = [trace EXCEPT ![r] = Append(@, Return("findExistingMoltbotProcess"))]
            /\ Respond(r, StatusNotRunning)
       ELSE /\ trace' = [trace EXCEPT ![r] =
                  @ \o <<Return("findExistingMoltbotProcess"),
                         Call("waitForPort", WaitForPortArgs)>>]
            /\ pc' = [pc EXCEPT ![r] = "waitForPort"]
            /\ UNCHANGED resp
    /\ UNCHANGED <<raw, escaped, mountVars, sandboxVars, assetVars>>

\* The lookup throws; lines 51-53
LookupThrows(r) ==
    /\ pc[r] = "lookup"
    /\ \E err \in Throwables :
          /\ trace' = [trace EXCEPT ![r] = Append(@, Throw("findExistingMoltbotProcess", err))]
          /\ Respond(r, StatusError(err))
    /\ UNCHANGED <<raw, found, escaped, mountVars, sandboxVars, assetVars>>

\* The port accepts connections within the timeout; line 47
WaitForPortResolves(r) ==
    /\ pc[r] = "waitForPort"
    /\ listening
    /\ trace' = [trace EXCEPT ![r] = Append(@, Return("waitForPort"))]
    /\ Respond(r, StatusRunning(found[r][1]))
    /\ UNCHANGED <<raw, found, escaped, mountVars, sandboxVars, assetVars>>

\* The port wait times out or fails; lines 48-50
WaitForPortRejects(r) ==
    /\ pc[r] = "waitForPort"
    /\ \E err \in Throwables \cup {ErrorOf("timeout")} :
          /\ err = ErrorOf("timeout") => ~listening
          /\ trace' = [trace EXCEPT ![r] = Append(@, Throw("waitForPort", err))]
    /\ Respond(r, StatusNotResponding(found[r][1]))
    /\ UNCHANGED <<raw, found, escaped, mountVars, sandboxVars, assetVars>>

----------------------------------------------------------------------------
(* Webhook proxy: proxyWebhook, lines 74-92, registered at lines 94-110 *)

\* Variant: the request is rebuilt without its body
ForwardArgs_DropsBody(request) ==
    [request |-> [request EXCEPT !.body = ""], port |-> MOLTBOT_PORT]

\* Line 83: the arguments of sandbox.containerFetch
ForwardArgs(request) == [request |-> request, port |-> MOLTBOT_PORT]

\* Variant: the failure is reported as a plain 500
WebhookCatch_500(err) ==
    Json([error |-> "Gateway not available",
          details |-> IF err.type = "Error" THEN err.text ELSE "Unknown error"], 500)

\* Lines 85-91: the catch block's response
WebhookCatch(err) ==
    Json([error |-> "Gateway not available",
          details |-> IF err.type = "Error" THEN err.text ELSE "Unknown error"], 503)

\* Variant: the request is forwarded without ensuring the gateway
WebhookBegin_SkipsEnsure(r) ==
    /\ MayBegin(r)
    /\ \E q \in InboundRequests :
          /\ Route(q.method, q.path) = "proxyWebhook"
          /\ raw' = [raw EXCEPT ![r] = <<q>>]
          /\ trace' = [trace EXCEPT ![r] = Append(@, Call("containerFetch", ForwardArgs(q)))]
    /\ pc' = [pc EXCEPT ![r] = "forward"]
    /\ UNCHANGED <<found, resp, escaped, mountVars, sandboxVars, assetVars>>

\* Variant: a webhook waits while another request is inside the Ensurer
WebhookBegin_Serialized(r) ==
    /\ MayBegin(r)
    /\ \A q \in Reqs : pc[q] \notin {"ensure", "ensureStart", "ensureWait"}
    /\ \E q \in InboundRequests :
          /\ Route(q.method, q.path) = "proxyWebhook"
          /\ raw' = [raw EXCEPT ![r] = <<q>>]
    /\ trace' = [trace EXCEPT ![r] = Append(@, Call("ensureMoltbotGateway", <<>>))]
    /\ pc' = [pc EXCEPT ![r] = "ensure"]
    /\ UNCHANGED <<found, resp, escaped, mountVars, sandboxVars, assetVars>>

\* Lines 74-80: up to the await of ensureMoltbotGateway
WebhookBegin(r) ==
    /\ MayBegin(r)
    /\ \E q \in InboundRequests :
          /\ Route(q.method, q.path) = "proxyWebhook"
          /\ raw' = [raw EXCEPT ![r] = <<q>>]
    /\ trace' = [trace EXCEPT ![r] = Append(@, Call("ensureMoltbotGateway", <<>>))]
    /\ pc' = [pc EXCEPT ![r] = "ensure"]
    /\ UNCHANGED <<found, resp, escaped, mountVars, sandboxVars, assetVars>>

\* ensureMoltbotGateway: start the backing process if absent, wait until ready
EnsureGateway ==
    /\ procs' = IF procs = {} THEN {ProcId(starts + 1)} ELSE procs
    /\ starts' = IF procs = {} THEN starts + 1 ELSE starts
    /\ listening' = TRUE

\* ensureMoltbotGateway fails: the process may have been started without becoming ready
EnsureFails(startedAnyway) ==
    /\ procs' = IF procs = {} /\ startedAnyway THEN {ProcId(starts + 1)} ELSE procs
    /\ starts' = IF procs = {} /\ startedAnyway THEN starts + 1 ELSE starts
    /\ UNCHANGED listening

\* The Ensurer returns; lines 80-83, up to the await of containerFetch
EnsureReturns(r) ==
    /\ pc[r] = "ensure"
    /\ EnsureGateway
    /\ trace' = [trace EXCEPT ![r] =
          @ \o <<Return("ensureMoltbotGateway"),
                 Call("containerFetch", ForwardArgs(raw[r][1]))>>]
    /\ pc' = [pc EXCEPT ![r] = "forward"]
    /\ UNCHANGED <<raw, found, resp, escaped, mountVars, assetVars>>

\* Variant: a failed Ensurer is ignored and the request is forwarded anyway
EnsureThrows_ForwardsAnyway(r) ==
    /\ pc[r] = "ensure"
    /\ \E startedAnyway \in BOOLEAN : EnsureFails(startedAnyway)
    /\ \E err \in Throwables :
          trace' = [trace EXCEPT ![r] =
              @ \o <<Throw("ensureMoltbotGateway", err),
                     Call("containerFetch", ForwardArgs(raw[r][1]))>>]
    /\ pc' = [pc EXCEPT ![r] = "forward"]
    /\ UNCHANGED <<raw, found, resp, escaped, mountVars, assetVars>>

\* The Ensurer throws; lines 85-91
EnsureThrows(r) ==
    /\ pc[r] = "ensure"
    /\ \E startedAnyway \in BOOLEAN : EnsureFails(startedAnyway)
    /\ \E err \in Throwables :
          /\ trace' = [trace EXCEPT ![r] = Append(@, Throw("ensureMoltbotGateway", err))]
          /\ Respond(r, WebhookCatch(err))
    /\ UNCHANGED <<raw, found, escaped, mountVars, assetVars>>

\* containerFetch returns the backing process's response; line 84
ForwardReturns(r) ==
    /\ pc[r] = "forward"
    /\ listening
    /\ \E R \in GatewayResponses :
          /\ trace' = [trace EXCEPT ![r] =
                Append(@, [op |-> "containerFetch", ev |-> "return", value |-> R])]
          /\ Respond(r, R)
    /\ UNCHANGED <<raw, found, escaped, mountVars, sandboxVars, assetVars>>

\* Variant: a failed forward is not caught and leaves the handler
ForwardThrows_Unhandled(r) ==
    /\ pc[r] = "forward"
    /\ \E err \in Throwables :
          trace' = [trace EXCEPT ![r] = Append(@, Throw("containerFetch", err))]
    /\ escaped' = [escaped EXCEPT ![r] = TRUE]
    /\ pc' = [pc EXCEPT ![r] = "failed"]
    /\ UNCHANGED <<raw, found, resp, mountVars, sandboxVars, assetVars>>

\* containerFetch throws; lines 85-91
ForwardThrows(r) ==
    /\ pc[r] = "forward"
    /\ \E err \in Throwables :
          /\ trace' = [trace EXCEPT ![r] = Append(@, Throw("containerFetch", err))]
          /\ Respond(r, WebhookCatch(err))
    /\ UNCHANGED <<raw, found, escaped, mountVars, sandboxVars, assetVars>>

\* A non-atomic Ensurer, step 1: look for an existing backing process
EnsureFinds(r) ==
    /\ pc[r] = "ensure"
    /\ pc' = [pc EXCEPT ![r] = IF procs = {} THEN "ensureStart" ELSE "ensureWait"]
    /\ UNCHANGED <<raw, found, trace, resp, escaped, mountVars, sandboxVars, assetVars>>

\* A non-atomic Ensurer, step 2: start a backing process, none having been found
EnsureStarts(r) ==
    /\ pc[r] = "ensureStart"
    /\ procs' = procs \cup {ProcId(starts + 1)}
    /\ starts' = starts + 1
    /\ pc' = [pc EXCEPT ![r] = "ensureWait"]
    /\ UNCHANGED <<listening, raw, found, trace, resp, escaped, mountVars, assetVars>>

\* A non-atomic Ensurer, step 3: the port is ready and the Ensurer returns;
\* lines 80-83, up to the await of containerFetch
EnsureReady(r) ==
    /\ pc[r] = "ensureWait"
    /\ listening' = TRUE
    /\ trace' = [trace EXCEPT ![r] =
          @ \o <<Return("ensureMoltbotGateway"),
                 Call("containerFetch", ForwardArgs(raw[r][1]))>>]
    /\ pc' = [pc EXCEPT ![r] = "forward"]
    /\ UNCHANGED <<procs, starts, raw, found, resp, escaped, mountVars, assetVars>>

\* Sandbox: a started backing process begins to listen on the gateway port
PortOpens ==
    /\ procs # {}
    /\ ~listening
    /\ listening' = TRUE
    /\ UNCHANGED <<procs, starts, reqVars, mountVars, assetVars>>

----------------------------------------------------------------------------
(* Static assets: lines 23-31 and 58-64 *)

\* Smallest index >= from whose character is in cs, Len(s) + 1 if none
FirstOf(s, cs, from) ==
    IF \E i \in from..Len(s) : SubSeq(s, i, i) \in cs
    THEN CHOOSE i \in from..Len(s) :
            /\ SubSeq(s, i, i) \in cs
            /\ \A j \in from..(i - 1) : SubSeq(s, j, j) \notin cs
    ELSE Len(s) + 1

\* new URL(u) for an absolute https URL: origin, pathname, search
ParseURL(u) ==
    LET hostEnd == FirstOf(u, {"/", "?", "#"}, Len("https://") + 1)
        pathEnd == FirstOf(u, {"?", "#"}, hostEnd)
        hashAt == FirstOf(u, {"#"}, pathEnd)
    IN [origin |-> SubSeq(u, 1, hostEnd - 1),
        pathname |-> IF pathEnd = hostEnd THEN "/" ELSE SubSeq(u, hostEnd, pathEnd - 1),
        search |-> SubSeq(u, pathEnd, hashAt - 1)]

\* new URL(path, origin).toString() for a path that starts with one "/"
ResolveURL(path, origin) ==
    LET parsed == ParseURL(origin \o path)
    IN parsed.origin \o parsed.pathname \o parsed.search

\* new Request(url, init): method, headers and body are taken from init
NewRequest(url, init) ==
    [url |-> url, method |-> init.method, headers |-> init.headers, body |-> init.body]

\* Lines 59-62: the URL handed to ASSETS.fetch
AssetUrl(requestUrl) ==
    LET url == ParseURL(requestUrl)
        assetPath == Replace(url.pathname, "/_admin/assets/", "/assets/")
    IN ResolveURL(assetPath, url.origin)

AssetSegments == {"foo.js", "css", "assets"}

RECURSIVE TailPaths(_)
TailPaths(n) ==
    IF n = 0 THEN {""}
    ELSE {""} \cup AssetSegments
         \cup {seg \o "/" \o t : seg \in AssetSegments, t \in TailPaths(n - 1) \ {""}}

AssetQueries == {"", "?v=123", "?a=1&next=/_admin/assets/x"}

Origin == "https://bot.example"

\* Requests routed to the asset handlers
AssetRequests ==
    [url : {Origin \o "/_admin/assets/" \o x \o q : x \in TailPaths(MaxSegs), q \in AssetQueries}
           \cup {Origin \o p \o q : p \in {"/logo.png", "/logo-small.png"}, q \in AssetQueries},
     method : {"GET"}, headers : {"accept: */*", "if-none-match: abc"}, body : {""}]

\* GET /logo.png and GET /logo-small.png, lines 24-31
Logo ==
    /\ assetFetch = <<>>
    /\ Route(assetReq.method, ParseURL(assetReq.url).pathname) = "logo"
    /\ assetFetch' = Append(assetFetch, assetReq)
    /\ UNCHANGED <<assetReq, mountVars, sandboxVars, reqVars>>

\* GET /_admin/assets/*, lines 58-64
AdminAssets ==
    /\ assetFetch = <<>>
    /\ Route(assetReq.method, ParseURL(assetReq.url).pathname) = "adminAssets"
    /\ assetFetch' = Append(assetFetch, NewRequest(AssetUrl(assetReq.url), assetReq))
    /\ UNCHANGED <<assetReq, mountVars, sandboxVars, reqVars>>

----------------------------------------------------------------------------
(* Specifications *)

NoEnv == [R2_ACCESS_KEY_ID |-> Undefined, R2_SECRET_ACCESS_KEY |-> Undefined,
          CF_ACCOUNT_ID |-> Undefined]

NoAssetRequest == [url |-> Origin \o "/", method |-> "GET", headers |-> "", body |-> ""]

InitIdleMount == env = NoEnv /\ inUseBy = "" /\ mountLog = <<>>
InitIdleSandbox == procs = {} /\ listening = FALSE /\ starts = 0
InitIdleReqs ==
    /\ pc = [r \in Reqs |-> "idle"]
    /\ raw = [r \in Reqs |-> <<>>]
    /\ found = [r \in Reqs |-> <<>>]
    /\ trace = [r \in Reqs |-> <<>>]
    /\ resp = [r \in Reqs |-> NoResponse]
    /\ escaped = [r \in Reqs |-> FALSE]
InitIdleAssets == assetReq = NoAssetRequest /\ assetFetch = <<>>

\* The mount path is free, or taken by this bucket or by another one
InitMount ==
    /\ env \in Envs
    /\ inUseBy \in {"", R2_BUCKET_NAME, "other-data"}
    /\ mountLog = <<>>
    /\ InitIdleSandbox /\ InitIdleReqs /\ InitIdleAssets

\* No backing process, one that is starting, or one that is listening
InitRoutes ==
    /\ \E n \in 0..1, l \in BOOLEAN :
          /\ l => n = 1
          /\ procs = {ProcId(i) : i \in 1..n}
          /\ starts = n
          /\ listening = l
    /\ InitIdleMount /\ InitIdleReqs /\ InitIdleAssets

InitAssets ==
    /\ assetReq \in AssetRequests
    /\ assetFetch = <<>>
    /\ InitIdleMount /\ InitIdleSandbox /\ InitIdleReqs

NextMount == MountStart \/ MountBucketResolves \/ MountBucketRejects

NextRoutes ==
    \/ PortOpens
    \/ \E r \in Reqs :
          \/ HealthCheck(r)
          \/ StatusBegin(r) \/ LookupReturns(r) \/ LookupThrows(r)
          \/ WaitForPortResolves(r) \/ WaitForPortRejects(r)
          \/ WebhookBegin(r) \/ EnsureReturns(r) \/ EnsureThrows(r)
          \/ ForwardReturns(r) \/ ForwardThrows(r)

NextAssets == Logo \/ AdminAssets

\* The webhook proxy over an Ensurer whose find and start are separate steps
NextRace ==
    \E r \in Reqs :
       \/ WebhookBegin(r)
       \/ EnsureFinds(r) \/ EnsureStarts(r) \/ EnsureReady(r) \/ EnsureThrows(r)
       \/ ForwardReturns(r) \/ ForwardThrows(r)

\* A collaborator call that request r awaits returns or throws
Completes(r) ==
    \/ LookupReturns(r) \/ LookupThrows(r)
    \/ WaitForPortResolves(r) \/ WaitForPortRejects(r)
    \/ EnsureReturns(r) \/ EnsureThrows(r)
    \/ ForwardReturns(r) \/ ForwardThrows(r)

Init == InitMount \/ InitRoutes \/ InitAssets
Next == NextMount \/ NextRoutes \/ NextRace \/ NextAssets

SpecMount == InitMount /\ [][NextMount]_vars
SpecRoutes == InitRoutes /\ [][NextRoutes]_vars
SpecAssets == InitAssets /\ [][NextAssets]_vars
SpecRace == InitRoutes /\ [][NextRace]_vars

\* Every awaited collaborator call eventually returns or throws
SpecRoutesFair == SpecRoutes /\ \A r \in Reqs : WF_vars(Completes(r))
Spec == Init /\ [][Next]_vars

----------------------------------------------------------------------------
(* Properties *)

\* The values thrown to request r by collaborator op
Threw(r, op) ==
    {trace[r][i].err : i \in {j \in DOMAIN trace[r] :
                                trace[r][j].op = op /\ trace[r][j].ev = "throw"}}

\* Collaborator op returned to request r
Returned(r, op) ==
    \E i \in DOMAIN trace[r] : trace[r][i].op = op /\ trace[r][i].ev = "return"

\* The positions in r's trace where op is called
CallsOf(r, op) ==
    {i \in DOMAIN trace[r] : trace[r][i].op = op /\ trace[r][i].ev = "call"}

IsRequestTo(r, method, path) ==
    IF raw[r] = <<>> THEN FALSE
    ELSE raw[r][1].method = method /\ raw[r][1].path = path

IsWebhook(r) == \E p \in WebhookPaths : IsRequestTo(r, "POST", p)

AllWebhookPathsProxied == \A p \in WebhookPaths : Route("POST", p) = "proxyWebhook"

\* C1: on each of the six webhook paths, when the Ensurer or the forward
\* throws, the handler answers 503 with error "Gateway not available" and the
\* thrown Error's message as details, and no exception leaves the handler.
C1_ProxyFailureIs503 ==
    /\ AllWebhookPathsProxied
    /\ \A r \in Reqs : \A op \in {"ensureMoltbotGateway", "containerFetch"} :
          \A err \in Threw(r, op) :
             IsWebhook(r) =>
                /\ ~escaped[r]
                /\ resp[r] # NoResponse
                /\ resp[r][1].status = 503
                /\ DOMAIN resp[r][1].body = {"error", "details"}
                /\ resp[r][1].body.error = "Gateway not available"
                /\ (err.type = "Error" => resp[r][1].body.details = err.text)

\* C1 witness: one webhook failed in the Ensurer and another in the forward,
\* and both were answered 503 with the message
C1_Witness ==
    \E r1, r2 \in Reqs :
       /\ IsWebhook(r1) /\ IsWebhook(r2)
       /\ ErrorOf("Gateway failed to start") \in Threw(r1, "ensureMoltbotGateway")
       /\ ErrorOf("Gateway failed to start") \in Threw(r2, "containerFetch")
       /\ resp[r1] # NoResponse /\ resp[r1][1].status = 503
       /\ resp[r2] # NoResponse /\ resp[r2][1].status = 503
       /\ resp[r2][1].body.details = "Gateway failed to start"

\* C2: when the Ensurer returns and the forward returns R, the handler's
\* response is exactly R whatever its status, and the forward was handed the
\* original inbound request and the fixed gateway port.
C2_PassThrough ==
    \A r \in Reqs : \A i \in DOMAIN trace[r] :
       /\ (trace[r][i].op = "containerFetch" /\ trace[r][i].ev = "call") =>
             /\ IsWebhook(r)
             /\ Returned(r, "ensureMoltbotGateway")
             /\ trace[r][i].args.request = raw[r][1]
             /\ trace[r][i].args.port = MOLTBOT_PORT
       /\ (trace[r][i].op = "containerFetch" /\ trace[r][i].ev = "return") =>
             resp[r] = <<trace[r][i].value>>

\* C2 witness: a 5xx of the backing process was passed through for a request
\* with a body
C2_Witness ==
    \E r \in Reqs :
       /\ IsRequestTo(r, "POST", "/slack/commands")
       /\ raw[r][1].body = "command=%2Fbot"
       /\ Returned(r, "containerFetch")
       /\ resp[r] = <<[status |-> 500, headers |-> "x-gateway: 1",
                       body |-> [text |-> "bot crashed"]]>>

StatusBodyOf(r) == resp[r][1].body

\* C3: GET /api/status maps the collaborator outcomes to exactly one of
\* not_running (no process), running (process and port wait completes),
\* not_responding (process and port wait throws), error (lookup throws).
C3_StatusClassification ==
    \A r \in Reqs : IsRequestTo(r, "GET", "/api/status") =>
       LET lookupThrew == Threw(r, "findExistingMoltbotProcess") # {}
           noProcess == Returned(r, "findExistingMoltbotProcess") /\ found[r] = <<>>
           waitDone == found[r] # <<>> /\ Returned(r, "waitForPort")
           waitThrew == found[r] # <<>> /\ Threw(r, "waitForPort") # {}
       IN /\ lookupThrew =>
                /\ resp[r] # NoResponse
                /\ StatusBodyOf(r).ok = FALSE
                /\ StatusBodyOf(r).status = "error"
                /\ \A err \in Threw(r, "findExistingMoltbotProcess") :
                      err.type = "Error" =>
                         StatusBodyOf(r) = [ok |-> FALSE, status |-> "error",
                                            error |-> err.text]
          /\ noProcess =>
                /\ resp[r] # NoResponse
                /\ StatusBodyOf(r) = [ok |-> FALSE, status |-> "not_running"]
          /\ waitDone =>
                /\ resp[r] # NoResponse
                /\ StatusBodyOf(r) = [ok |-> TRUE, status |-> "running",
                                      processId |-> found[r][1]]
          /\ waitThrew =>
                /\ resp[r] # NoResponse
                /\ StatusBodyOf(r) = [ok |-> FALSE, status |-> "not_responding",
                                      processId |-> found[r][1]]
          /\ resp[r] # NoResponse =>
                Cardinality({c \in {"lookupThrew", "noProcess", "waitDone", "waitThrew"} :
                    \/ c = "lookupThrew" /\ lookupThrew
                    \/ c = "noProcess" /\ noProcess
                    \/ c = "waitDone" /\ waitDone
                    \/ c = "waitThrew" /\ waitThrew}) = 1

\* C3 witness: one status request saw the port wait fail, another saw the
\* lookup fail
C3_Witness ==
    \E r1, r2 \in Reqs :
       /\ IsRequestTo(r1, "GET", "/api/status")
       /\ IsRequestTo(r2, "GET", "/api/status")
       /\ Threw(r1, "waitForPort") # {}
       /\ resp[r1] # NoResponse /\ resp[r1][1].body.status = "not_responding"
       /\ Threw(r2, "findExistingMoltbotProcess") # {}
       /\ resp[r2] # NoResponse /\ resp[r2][1].body.status = "error"

CredentialNames == {"R2_ACCESS_KEY_ID", "R2_SECRET_ACCESS_KEY", "CF_ACCOUNT_ID"}

AbsentOrEmpty(v) == v \in {Undefined, Some("")}

AllCredentialsPresent == \A f \in CredentialNames : ~AbsentOrEmpty(env[f])

RejectedWith(m) == IF m.outcome = NoOutcome THEN {}
                   ELSE IF m.outcome[1].kind = "rejected" THEN {m.outcome[1].err}
                   ELSE {}

\* C4: when a credential is absent or empty, mount returns false and
\* mountBucket is never called.
C4_NoMountWithoutCredentials ==
    (\E f \in CredentialNames : AbsentOrEmpty(env[f])) =>
       \A i \in DOMAIN mountLog :
          /\ mountLog[i].phase = "done"
          /\ mountLog[i].result = "false"
          /\ mountLog[i].calls = <<>>
          /\ mountLog[i].outcome = NoOutcome

\* C4 witness: mount has returned with only the account id empty
C4_Witness ==
    /\ env = [R2_ACCESS_KEY_ID |-> Some("key123"), R2_SECRET_ACCESS_KEY |-> Some("secret"),
              CF_ACCOUNT_ID |-> Some("")]
    /\ Len(mountLog) = 2
    /\ mountLog[2].result = "false"

\* C5: with all credentials present, a mount call rejected with an Error whose
\* message contains "already in use" makes mount return true; a second mount
\* on a sandbox where the first one mounted the bucket returns true as well.
C5_AlreadyInUseIsSuccess ==
    \A i \in DOMAIN mountLog :
       /\ \A err \in RejectedWith(mountLog[i]) :
             (AllCredentialsPresent /\ err.type = "Error"
                 /\ Includes(err.text, "already in use")) => mountLog[i].result = "true"
       /\ \A j \in DOMAIN mountLog :
             (i < j /\ mountLog[i].outcome = Resolved
                 /\ ErrorOf(InUseMessage("clawdbot-data")) \in RejectedWith(mountLog[j])) =>
                /\ mountLog[i].result = "true"
                /\ mountLog[j].result = mountLog[i].result

\* C5 witness: the first mount succeeded, the second met the conflict and
\* returned true
C5_Witness ==
    /\ Len(mountLog) = 2
    /\ mountLog[1].outcome = Resolved
    /\ RejectedWith(mountLog[2]) = {ErrorOf(
         "InvalidMountConfigError: Mount path \"/data/clawdbot\" is already in use by bucket \"clawdbot-data\"")}
    /\ mountLog[2].result = "true"

\* C6: with all credentials present, a mount call rejected with an Error whose
\* message does not contain "already in use" makes mount return false, and no
\* rejection leaves mount as an exception.
C6_OtherFailuresAreFalse ==
    \A i \in DOMAIN mountLog :
       /\ mountLog[i].result # "threw"
       /\ \A err \in RejectedWith(mountLog[i]) :
             /\ mountLog[i].result \in {"true", "false"}
             /\ (AllCredentialsPresent /\ err.type = "Error"
                   /\ ~Includes(err.text, "already in use")) => mountLog[i].result = "false"

\* C6 witness: the near-miss messages were both answered false
C6_Witness ==
    /\ Len(mountLog) = 2
    /\ RejectedWith(mountLog[1]) = {ErrorOf("already in us")}
    /\ RejectedWith(mountLog[2]) = {ErrorOf("Already In Use")}
    /\ mountLog[1].result = "false" /\ mountLog[2].result = "false"

\* C7: with all credentials present and a successful mount call, mount returns
\* true and the call carried the fixed bucket name, the fixed mount path, the
\* endpoint https://{account id}.r2.cloudflarestorage.com and the credential
\* pair of the environment.
C7_MountArguments ==
    \A i \in DOMAIN mountLog :
       (AllCredentialsPresent /\ mountLog[i].outcome = Resolved) =>
          /\ mountLog[i].result = "true"
          /\ mountLog[i].calls =
                <<[bucket |-> "clawdbot-data",
                   mountPath |-> "/data/clawdbot",
                   endpoint |-> "https://" \o env.CF_ACCOUNT_ID[1]
                                   \o ".r2.cloudflarestorage.com",
                   accessKeyId |-> env.R2_ACCESS_KEY_ID[1],
                   secretAccessKey |-> env.R2_SECRET_ACCESS_KEY[1]]>>
          /\ env.CF_ACCOUNT_ID = Some("account123") =>
                mountLog[i].calls[1].endpoint = "https://account123.r2.cloudflarestorage.com"

\* C7 witness: a successful mount for account123
C7_Witness ==
    /\ env.CF_ACCOUNT_ID = Some("account123")
    /\ mountLog # <<>>
    /\ mountLog[1].outcome = Resolved
    /\ mountLog[1].result = "true"

\* C8: for GET /_admin/assets/X with query string Q, the request handed to
\* ASSETS.fetch has path /assets/X, the same query string Q, and the original
\* method, headers and body.
C8_AssetQueryPreserved ==
    \A x \in TailPaths(MaxSegs), q \in AssetQueries :
       (assetReq.url = Origin \o "/_admin/assets/" \o x \o q /\ assetFetch # <<>>) =>
          assetFetch = <<[url |-> Origin \o "/assets/" \o x \o q,
                          method |-> assetReq.method,
                          headers |-> assetReq.headers,
                          body |-> assetReq.body]>>

IsStatusStep(r) ==
    /\ pc'[r] # pc[r]
    /\ raw'[r] # <<>>
    /\ raw'[r][1].method = "GET" /\ raw'[r][1].path = "/api/status"

StatusCallsOnly ==
    \A r \in Reqs : IsRequestTo(r, "GET", "/api/status") =>
       /\ \A i \in DOMAIN trace[r] :
             trace[r][i].op \in {"findExistingMoltbotProcess", "waitForPort"}
       /\ Cardinality(CallsOf(r, "findExistingMoltbotProcess")) <= 1
       /\ Cardinality(CallsOf(r, "waitForPort")) <= 1

\* C9: a status request makes at most one lookup and one port wait and no
\* other collaborator call, and none of its steps changes the set of backing
\* processes.
C9_StatusNeverStarts ==
    /\ []StatusCallsOnly
    /\ [][\A r \in Reqs : IsStatusStep(r) =>
             UNCHANGED <<procs, starts, listening, inUseBy, mountLog>>]_vars

\* C9 witness: a status request completed its lookup and port wait
C9_Witness ==
    \E r \in Reqs :
       /\ IsRequestTo(r, "GET", "/api/status")
       /\ pc[r] = "done"
       /\ Cardinality(CallsOf(r, "findExistingMoltbotProcess")) = 1
       /\ Cardinality(CallsOf(r, "waitForPort")) = 1
       /\ procs = {"proc-1"}

\* C10: GET /sandbox-health answers 200 with {status ok, the static service
\* name, the gateway port} whatever the state of the backing process, and
\* calls no collaborator.
C10_HealthIsFixed ==
    \A r \in Reqs : IsRequestTo(r, "GET", "/sandbox-health") =>
       /\ pc[r] = "done"
       /\ ~escaped[r]
       /\ trace[r] = <<>>
       /\ found[r] = <<>>
       /\ resp[r] = <<[status |-> 200,
                       headers |-> "content-type: application/json",
                       body |-> [status |-> "ok", service |-> "moltbot-sandbox",
                                 gateway_port |-> MOLTBOT_PORT]]>>

\* C10 witness: health was answered while a backing process existed that was
\* not listening
C10_Witness ==
    /\ \E r \in Reqs : IsRequestTo(r, "GET", "/sandbox-health") /\ resp[r] # NoResponse
    /\ procs # {}
    /\ ~listening

\* The positions in r's trace where op returned or threw
OutcomesOf(r, op) ==
    {i \in DOMAIN trace[r] : trace[r][i].op = op /\ trace[r][i].ev \in {"return", "throw"}}

\* C11: within one webhook request the Ensurer is called exactly once and
\* first; the forward is called at most once and only after the Ensurer has
\* returned; after a throw of either step no further call is made.
C11_EnsureThenForwardOnce ==
    \A r \in Reqs : IsWebhook(r) =>
       /\ Cardinality(CallsOf(r, "ensureMoltbotGateway")) = 1
       /\ trace[r][1] = Call("ensureMoltbotGateway", <<>>)
       /\ Cardinality(CallsOf(r, "containerFetch")) <= 1
       /\ \A i \in CallsOf(r, "containerFetch") :
             /\ i > 1
             /\ trace[r][i - 1] = Return("ensureMoltbotGateway")
       /\ Threw(r, "ensureMoltbotGateway") # {} => CallsOf(r, "containerFetch") = {}
       /\ \A i \in DOMAIN trace[r] :
             trace[r][i].ev = "throw" => i = Len(trace[r])
       /\ Cardinality(OutcomesOf(r, "ensureMoltbotGateway")) <= 1
       /\ Cardinality(OutcomesOf(r, "containerFetch")) <= 1

\* C11 witness: one webhook ended on a failed Ensurer without a forward,
\* another on a failed forward after one Ensurer call
C11_Witness ==
    \E r1, r2 \in Reqs :
       /\ IsWebhook(r1) /\ IsWebhook(r2)
       /\ pc[r1] = "done" /\ pc[r2] = "done"
       /\ Threw(r1, "ensureMoltbotGateway") # {}
       /\ CallsOf(r1, "containerFetch") = {}
       /\ Threw(r2, "containerFetch") # {}
       /\ Len(trace[r2]) = 4

\* C12: with the atomic find-or-start Ensurer, under every interleaving of
\* concurrent webhook requests the backing process is started at most once and
\* a request is in or past its forward only when the process exists and listens.
C12_AtomicEnsurerStartsOnce ==
    /\ starts <= 1
    /\ Cardinality(procs) <= 1
    /\ \A r \in Reqs :
          (IsWebhook(r) /\ CallsOf(r, "containerFetch") # {}) =>
             /\ procs # {}
             /\ listening
             /\ Returned(r, "ensureMoltbotGateway")

\* C12 witness: two webhook requests are in their forward at once over a
\* single started process
C12_Witness ==
    /\ \E r1, r2 \in Reqs :
          /\ r1 # r2
          /\ IsWebhook(r1) /\ IsWebhook(r2)
          /\ pc[r1] = "forward" /\ pc[r2] = "forward"
    /\ starts = 1
    /\ procs = {"proc-1"}

InsideEnsurer(r) == pc[r] \in {"ensure", "ensureStart", "ensureWait"}

\* C13: the webhook handler takes no lock around the Ensurer: the next request
\* to arrive can enter the Ensurer whatever the other requests are doing, so
\* over an Ensurer whose find and start are separate steps two requests are
\* inside it together and the backing process is started twice.
C13_NoSerialization ==
    \A r \in Reqs :
       (pc[r] = "idle" /\ \A q \in Reqs : q < r => pc[q] # "idle") =>
          ENABLED WebhookBegin(r)

\* C13 witness: two requests are inside the Ensurer at once and two backing
\* processes have been started
C13_Witness ==
    /\ \E r1, r2 \in Reqs : r1 # r2 /\ InsideEnsurer(r1) /\ InsideEnsurer(r2)
    /\ starts = 2
    /\ Cardinality(procs) = 2

StatusBodies == {"not_running", "not_responding", "running", "error"}

\* The response of a finished request is one its handler can end in
EndsInKnownResponse(r) ==
    IF IsWebhook(r)
    THEN \/ \E i \in DOMAIN trace[r] :
               /\ trace[r][i].op = "containerFetch" /\ trace[r][i].ev = "return"
               /\ resp[r] = <<trace[r][i].value>>
         \/ /\ resp[r][1].status = 503
            /\ DOMAIN resp[r][1].body = {"error", "details"}
            /\ resp[r][1].body.error = "Gateway not available"
    ELSE IF IsRequestTo(r, "GET", "/api/status")
    THEN /\ "status" \in DOMAIN resp[r][1].body
         /\ resp[r][1].body.status \in StatusBodies
    ELSE TRUE

Answered(r) == pc[r] = "done" /\ resp[r] # NoResponse /\ ~escaped[r]

\* C14: every webhook and status request that has begun eventually has a
\* response, the forwarded one or the 503 body for a webhook and one of the
\* four status bodies for a status request; the response never changes
\* afterwards and no exception leaves the handler.
\* (A request that has begun never returns to idle and an answered one stays
\* answered, so "begun leads to answered" is stated as "infinitely often idle
\* or answered".)
C14_EveryRequestIsAnswered ==
    /\ \A r \in Reqs : []<>(pc[r] = "idle" \/ Answered(r))
    /\ [][\A r \in Reqs : /\ pc[r] # "idle" => pc'[r] # "idle"
                          /\ Answered(r) => Answered(r)' /\ resp'[r] = resp[r]]_vars
    /\ [](\A r \in Reqs : ~escaped[r] /\ (pc[r] = "done" =>
             resp[r] # NoResponse /\ EndsInKnownResponse(r)))

\* C14 witness: a webhook whose forward threw and a status request whose
\* lookup threw have both been answered
C14_Witness ==
    \E r1, r2 \in Reqs :
       /\ IsWebhook(r1)
       /\ Threw(r1, "containerFetch") # {}
       /\ pc[r1] = "done" /\ resp[r1] # NoResponse
       /\ IsRequestTo(r2, "GET", "/api/status")
       /\ Threw(r2, "findExistingMoltbotProcess") # {}
       /\ pc[r2] = "done" /\ resp[r2] # NoResponse

\* C15: one invocation of mount makes at most one mountBucket call; once that
\* call is rejected, mount has returned.
C15_SingleMountAttempt ==
    \A i \in DOMAIN mountLog :
       /\ Len(mountLog[i].calls) <= 1
       /\ RejectedWith(mountLog[i]) # {} =>
             /\ mountLog[i].phase = "done"
             /\ mountLog[i].result \in {"true", "false"}
             /\ Len(mountLog[i].calls) = 1

\* C15 witness: two invocations each ended on a rejected mount call, one of
\* each kind
C15_Witness ==
    /\ Len(mountLog) = 2
    /\ RejectedWith(mountLog[1]) = {ErrorOf("Mount failed")}
    /\ mountLog[1].result = "false"
    /\ RejectedWith(mountLog[2]) = {ErrorOf(InUseMessage("clawdbot-data"))}
    /\ mountLog[2].result = "true"
    /\ Len(mountLog[1].calls) = 1 /\ Len(mountLog[2].calls) = 1

C17_StatusBodyWellFormed ==
    \A r \in Reqs :
       (IsRequestTo(r, "GET", "/api/status") /\ resp[r] # NoResponse) =>
          LET body == resp[r][1].body IN
          /\ resp[r][1].status = 200
          /\ {"ok", "status"} \subseteq DOMAIN body
          /\ DOMAIN body \subseteq {"ok", "status", "processId", "error"}
          /\ body.status \in {"not_running", "not_responding", "running", "error"}
          /\ body.ok = (body.status = "running")
          /\ ("processId" \in DOMAIN body) = (body.status \in {"running", "not_responding"})
          /\ "processId" \in DOMAIN body =>
                found[r] # <<>> /\ body.processId = found[r][1]
          /\ ("error" \in DOMAIN body) = (body.status = "error")

\* C17 witness: a running body and an error body have both been returned
C17_Witness ==
    \E r1, r2 \in Reqs :
       /\ IsRequestTo(r1, "GET", "/api/status") /\ IsRequestTo(r2, "GET", "/api/status")
       /\ resp[r1] # NoResponse /\ resp[r2] # NoResponse
       /\ resp[r1][1].body = [ok |-> TRUE, status |-> "running", processId |-> "proc-1"]
       /\ resp[r2][1].body.status = "error"

\* C18: a rejected mount call is turned into true exactly when the text of the
\* thrown value contains "already in use", also when the message names
\* another bucket or another mount path.
C18_SubstringOnly ==
    \A i \in DOMAIN mountLog : \A err \in RejectedWith(mountLog[i]) :
       /\ (mountLog[i].result = "true") =
             Includes(IF err.type = "Error" THEN err.text
                      ELSE IF err.type = "string" THEN err.text ELSE "undefined",
                      "already in use")
       /\ err \in {ErrorOf(InUseMessage("other-data")),
                   ErrorOf("Mount path \"/mnt/cache\" is already in use by bucket \"cache\"")}
             => mountLog[i].result = "true"

\* C18 witness: conflicts naming another bucket and another mount path were
\* both answered true
C18_Witness ==
    /\ inUseBy = "other-data"
    /\ Len(mountLog) = 2
    /\ RejectedWith(mountLog[1]) = {ErrorOf(
         "InvalidMountConfigError: Mount path \"/data/clawdbot\" is already in use by bucket \"other-data\"")}
    /\ RejectedWith(mountLog[2]) =
         {ErrorOf("Mount path \"/mnt/cache\" is already in use by bucket \"cache\"")}
    /\ mountLog[1].result = "true" /\ mountLog[2].result = "true"

====
